---- MODULE Spec2Model ----
(***************************************************************************)
(* Jobs Kenya API: the scraping pipeline (api/helpers.py run_all_scrapers  *)
(* and the standalone scraper.py), its Postgres persistence (save_jobs,    *)
(* load_jobs) and the HTTP handlers (api/scrape.py, api/status.py).        *)
(*                                                                         *)
(* Texts are TLA+ strings; a character is a string of length one.  The     *)
(* Postgres relations are functions from primary key to row; a connection  *)
(* runs one READ COMMITTED transaction whose writes reach the relations at *)
(* COMMIT.                                                                 *)
(***************************************************************************)
EXTENDS Integers, Sequences, FiniteSets, TLC

VARIABLES
    scraped_jobs,   \* committed relation scraped_jobs: id -> row
    scraper_meta,   \* committed relation scraper_meta: key -> value
    tables,         \* TRUE once the CREATE TABLE statements have committed
    clock,          \* datetime.now(), advanced by the runs that read it
    runs,           \* per orchestrator run: position, locals, transaction, answer
    reply,          \* the answer of the last read request (GET /status, GET /jobs)
    dd              \* deduplicate tried by itself: [pc, x, out, again]

vars == <<scraped_jobs, scraper_meta, tables, clock, runs, reply, dd>>

\* ------------------------------------------------------------------ bounds
MaxClock == 3       \* at most this many timestamps are handed out
MaxLen   == 3       \* longest posting list deduplicate is tried on by itself
MaxRows  == 82      \* postings found by the run the read surface is tried after

\* ------------------------------------------------------- program constants
TitleKeyLen   == 40     \* lower()[:40]
CompanyKeyLen == 25     \* lower()[:25]
DescCap       == 2000   \* description[:2000]
DefaultLimit  == 80     \* load_jobs(limit=80)
SlugLen       == 6      \* [:6]
MinTitleLen   == 4      \* len(title) < 4
FeedCap       == 40     \* items[:40]

ADMIN_SECRET == "jobskenya-secret-2025"

\* Python's None where a text was expected (a JSON null).
NoneVal == "<None>"

\* ------------------------------------------------------------ text helpers
Min(a, b) == IF a < b THEN a ELSE b

Ch(s, i) == SubSeq(s, i, i)

\* s[:n]
Prefix(s, n) == SubSeq(s, 1, Min(n, Len(s)))

\* s[n:]  (n counted from 0)
Suffix(s, n) == IF n >= Len(s) THEN "" ELSE SubSeq(s, n + 1, Len(s))

UpperLetters == "ABCDEFGHIJKLMNOPQRSTUVWXYZ"
LowerLetters == "abcdefghijklmnopqrstuvwxyz"

LowerChar(c) ==
    IF \E i \in 1..26 : Ch(UpperLetters, i) = c
    THEN Ch(LowerLetters, CHOOSE i \in 1..26 : Ch(UpperLetters, i) = c)
    ELSE c

RECURSIVE Lower(_)
Lower(s) == IF s = "" THEN "" ELSE LowerChar(Head(s)) \o Lower(Tail(s))

\* w in t
Contains(t, w) ==
    \E i \in 0..(Len(t) - Len(w)) : SubSeq(t, i + 1, i + Len(w)) = w

\* t.find(w): the first offset (from 0) of w in t; used only when w in t
Find(t, w) ==
    CHOOSE i \in 0..(Len(t) - Len(w)) :
        /\ SubSeq(t, i + 1, i + Len(w)) = w
        /\ \A k \in 0..(i - 1) : SubSeq(t, k + 1, k + Len(w)) # w

IsSpace(c) == c \in {" ", "\t", "\n", "\r"}

RECURSIVE LStrip(_)
LStrip(s) == IF s # "" /\ IsSpace(Head(s)) THEN LStrip(Tail(s)) ELSE s

RECURSIVE RStrip(_)
RStrip(s) ==
    IF s # "" /\ IsSpace(Ch(s, Len(s))) THEN RStrip(SubSeq(s, 1, Len(s) - 1)) ELSE s

Strip(s) == RStrip(LStrip(s))

\* ' '.join(s.split()) for an s without leading whitespace
RECURSIVE JoinWords(_)
JoinWords(s) ==
    IF \A i \in 1..Len(s) : ~IsSpace(Ch(s, i)) THEN s
    ELSE IF IsSpace(Head(s))
         THEN (IF LStrip(s) = "" THEN "" ELSE " " \o JoinWords(LStrip(s)))
         ELSE Head(s) \o JoinWords(Tail(s))

clean(t) == IF t = NoneVal THEN "" ELSE JoinWords(Strip(t))

\* re.sub(r'<[^>]+>', ' ', s): a '<', one or more characters other than '>', a '>'
RECURSIVE SubTags(_)
SubTags(s) ==
    IF ~Contains(s, "<") THEN s
    ELSE IF Head(s) = "<" /\ Contains(Tail(s), ">") /\ Find(Tail(s), ">") >= 1
         THEN " " \o SubTags(Suffix(Tail(s), Find(Tail(s), ">") + 1))
         ELSE Head(s) \o SubTags(Tail(s))

strip_html(t) == IF t = NoneVal THEN "" ELSE Strip(SubTags(t))

\* ------------------------------------------------------------ extract_email
Letters == UpperLetters \o LowerLetters
Digits  == "0123456789"

LocalChars  == Letters \o Digits \o "._%+-"
DomainChars == Letters \o Digits \o ".-"

\* length of the longest prefix of s made of characters of the class chars
RECURSIVE RunLen(_, _)
RunLen(s, chars) ==
    IF s # "" /\ Contains(chars, Head(s)) THEN 1 + RunLen(Tail(s), chars) ELSE 0

\* length of the match of [A-Za-z0-9._%+-]+@[A-Za-z0-9.-]+\.[A-Za-z]{2,} at the
\* start of s, 0 when there is none
EmailMatchLen(s) ==
    LET l   == RunLen(s, LocalChars)
        dom == Suffix(s, l + 1)
        d   == RunLen(dom, DomainChars)
        \* k domain characters, a dot, then at least two letters
        Ks  == {k \in 1..d : /\ k + 1 <= d
                             /\ Ch(dom, k + 1) = "."
                             /\ RunLen(Suffix(dom, k + 1), Letters) >= 2}
        k   == CHOOSE x \in Ks : \A y \in Ks : y <= x
    IN  IF l = 0 \/ l >= Len(s) \/ Ch(s, l + 1) # "@" \/ Ks = {} THEN 0
        ELSE l + 1 + k + 1 + RunLen(Suffix(dom, k + 1), Letters)

\* re.findall: the non-overlapping matches, leftmost first
RECURSIVE FindEmails(_)
FindEmails(s) ==
    IF s = "" THEN <<>>
    ELSE LET n == EmailMatchLen(s)
         IN  IF n > 0 THEN <<Prefix(s, n)>> \o FindEmails(Suffix(s, n))
             ELSE FindEmails(Tail(s))

BadEmailParts == <<"noreply", "no-reply", "donotreply", "example", "sentry", "test@">>

extract_email(text) ==
    LET emails == FindEmails(IF text = NoneVal THEN "" ELSE text)
        good   == {i \in 1..Len(emails) :
                      \A b \in 1..Len(BadEmailParts) :
                          ~Contains(Lower(emails[i]), BadEmailParts[b])}
    IN  IF good = {} THEN ""
        ELSE emails[CHOOSE i \in good : \A k \in good : i <= k]

\* -------------------------------------------------------------- classifier
Counties ==
    <<"Nairobi", "Mombasa", "Kisumu", "Nakuru", "Eldoret", "Kiambu",
      "Machakos", "Nyeri", "Meru", "Kakamega", "Kisii", "Kilifi",
      "Embu", "Garissa", "Bungoma", "Kajiado", "Kericho", "Turkana",
      "Homa Bay", "Nyamira", "Narok", "Vihiga", "Thika", "Lamu", "Siaya">>

\* A search that returns the region standing first in the text instead of
\* first in the list.
extract_county_by_position(text) ==
    LET t    == Lower(IF text = NoneVal THEN "" ELSE text)
        hits == {i \in 1..Len(Counties) : Contains(t, Lower(Counties[i]))}
        at(i) == Find(t, Lower(Counties[i]))
    IN  IF hits # {} THEN Counties[CHOOSE i \in hits : \A k \in hits : at(i) <= at(k)]
        ELSE IF Contains(t, "remote") \/ Contains(t, "online") THEN "Remote"
        ELSE "Nairobi"

extract_county(text) ==
    LET t    == Lower(IF text = NoneVal THEN "" ELSE text)
        hits == {i \in 1..Len(Counties) : Contains(t, Lower(Counties[i]))}
    IN  IF hits # {} THEN Counties[CHOOSE i \in hits : \A k \in hits : i <= k]
        ELSE IF Contains(t, "remote") \/ Contains(t, "online") THEN "Remote"
        ELSE "Nairobi"

\* A classifier that leaves the field blank when no keyword occurs: what the
\* fallback must not be.
FirstRuleBlank(t, rules, default) ==
    LET hits == {i \in 1..Len(rules) : \E w \in rules[i].words : Contains(t, w)}
    IN  IF hits = {} THEN ""
        ELSE rules[CHOOSE i \in hits : \A k \in hits : i <= k].label

\* the first rule one of whose keywords occurs in t, else the default
FirstRule(t, rules, default) ==
    LET hits == {i \in 1..Len(rules) : \E w \in rules[i].words : Contains(t, w)}
    IN  IF hits = {} THEN default
        ELSE rules[CHOOSE i \in hits : \A k \in hits : i <= k].label

\* The same rules with Government tested before Internship.
TypeRulesGovernmentFirst ==
    << [words |-> {"government", "county", "ministry", "psc"},  label |-> "Government"],
       [words |-> {"intern", "attachment", "graduate trainee"}, label |-> "Internship"],
       [words |-> {"part-time", "part time", "casual"},         label |-> "Part-Time"],
       [words |-> {"ngo", "unicef", "undp", "oxfam", "non-profit"}, label |-> "NGO"],
       [words |-> {"remote", "work from home", "wfh"},          label |-> "Remote"],
       [words |-> {"contract", "consultant", "temporary"},      label |-> "Contract"] >>

TypeRules ==
    << [words |-> {"intern", "attachment", "graduate trainee"}, label |-> "Internship"],
       [words |-> {"part-time", "part time", "casual"},         label |-> "Part-Time"],
       [words |-> {"government", "county", "ministry", "psc"},  label |-> "Government"],
       [words |-> {"ngo", "unicef", "undp", "oxfam", "non-profit"}, label |-> "NGO"],
       [words |-> {"remote", "work from home", "wfh"},          label |-> "Remote"],
       [words |-> {"contract", "consultant", "temporary"},      label |-> "Contract"] >>

detect_type(text) ==
    FirstRule(Lower(IF text = NoneVal THEN "" ELSE text), TypeRules, "Full-Time")

SectorRules ==
    << [words |-> {"software", "developer", "ict", "data", "cyber", "tech"}, label |-> "ICT & Technology"],
       [words |-> {"nurse", "doctor", "medical", "health", "clinical"},      label |-> "Health & Medicine"],
       [words |-> {"finance", "account", "audit", "tax", "banking"},         label |-> "Finance & Banking"],
       [words |-> {"engineer", "civil", "mechanical", "electrical"},         label |-> "Engineering"],
       [words |-> {"teach", "tutor", "lecturer", "school", "education"},     label |-> "Education"],
       [words |-> {"farm", "agri", "crop", "livestock", "food"},             label |-> "Agriculture"],
       [words |-> {"market", "sales", "brand", "advertis"},                  label |-> "Marketing & Sales"],
       [words |-> {"ngo", "humanitarian", "relief", "programme"},            label |-> "NGO / Non-Profit"],
       [words |-> {"legal", "lawyer", "advocate", "compliance"},             label |-> "Legal"],
       [words |-> {"driver", "transport", "logistics", "supply"},            label |-> "Transport & Logistics"] >>

detect_sector(text) ==
    FirstRule(Lower(IF text = NoneVal THEN "" ELSE text), SectorRules, "General")

\* ----------------------------------------------------------------- adapters
\* d.get(k, default) of a JSON object d
Get(d, k, default) == IF k \in DOMAIN d THEN d[k] ELSE default

\* One posting, with the columns of scraped_jobs.
Posting(id, title, company, location, county, type, sector, salary, link, apply_email, description, source, scraped_at) ==
    [id |-> id, title |-> title, company |-> company, location |-> location,
     county |-> county, type |-> type, sector |-> sector, salary |-> salary,
     deadline |-> "", link |-> link, apply_email |-> apply_email,
     description |-> description, source |-> source, scraped_at |-> scraped_at]

\* The fetch outcomes under which an adapter returns nothing: requests.get
\* raises, res.ok is false, the payload does not parse.
FailKinds == {"timeout", "http_error", "malformed"}

\* scrape_reliefweb: the loop over res.json()['data'].  An item is a JSON
\* object with optional id, title, source, body, created, url; an item that is
\* no object ("junk") raises inside the per-item try and is skipped.
RECURSIVE ReliefwebLoop(_, _, _)
ReliefwebLoop(items, jobs, now) ==
    IF items = <<>> THEN jobs
    ELSE LET item    == Head(items)
             title   == clean(Get(item, "title", ""))
             sources == Get(item, "source", <<>>)
             company == IF sources # <<>> THEN Get(sources[1], "name", "NGO") ELSE "NGO"
             body    == clean(strip_html(Get(item, "body", "")))
             date    == Get(item, "created", now)
             job     == Posting("rw-" \o ToString(Get(item, "id", Len(jobs))),
                                title, company,
                                extract_county(title \o " " \o body) \o ", Kenya",
                                extract_county(title \o " " \o body),
                                detect_type(title \o " " \o body),
                                detect_sector(title),
                                "Not stated", Get(item, "url", ""),
                                extract_email(body), Prefix(body, DescCap),
                                "ReliefWeb", date)
         IN  IF "junk" \in DOMAIN item \/ title = ""
             THEN ReliefwebLoop(Tail(items), jobs, now)
             ELSE ReliefwebLoop(Tail(items), Append(jobs, job), now)

scrape_reliefweb(res, now) ==
    IF res.kind \in FailKinds THEN <<>> ELSE ReliefwebLoop(res.data, <<>>, now)

\* scrape_remotive: the loop over res.json()['jobs'].  title + ' ' + category
\* raises TypeError when category is null, and the item is skipped.
RECURSIVE RemotiveLoop(_, _, _)
RemotiveLoop(items, jobs, now) ==
    IF items = <<>> THEN jobs
    ELSE LET j     == Head(items)
             title == clean(Get(j, "title", ""))
             desc  == clean(strip_html(Get(j, "description", "")))
             cat   == Get(j, "category", "")
             sal   == Get(j, "salary", "")
             job   == Posting("rem-" \o ToString(Len(jobs)),
                              title, clean(Get(j, "company_name", "")),
                              "Remote / Online", "Remote", "Remote",
                              detect_sector(title \o " " \o cat),
                              IF sal \in {"", NoneVal} THEN "Not stated" ELSE sal,
                              Get(j, "url", ""), "", Prefix(desc, DescCap),
                              "Remotive (Remote)", Get(j, "publication_date", now))
         IN  IF "junk" \in DOMAIN j \/ title = "" \/ cat = NoneVal
             THEN RemotiveLoop(Tail(items), jobs, now)
             ELSE RemotiveLoop(Tail(items), Append(jobs, job), now)

scrape_remotive(res, now) ==
    IF res.kind \in FailKinds THEN <<>> ELSE RemotiveLoop(res.jobs, <<>>, now)

\* A feed entry is an XML element: entry.plain maps the tags of its children
\* without namespace to the child, entry.atom those in the Atom namespace.  A
\* child is [text, kids, href]: its text (NoneVal when it has none), whether it
\* has child elements of its own, its href attribute.
\*   el = item.find(tag) or item.find(f'atom:{tag}', ns)
\* An Element without children is false, so the plain child is taken only
\* when it has children; el is [found, el].
FindEl(entry, tag) ==
    IF tag \in DOMAIN entry.plain /\ entry.plain[tag].kids
    THEN [found |-> TRUE, el |-> entry.plain[tag]]
    ELSE IF tag \in DOMAIN entry.atom
         THEN [found |-> TRUE, el |-> entry.atom[tag]]
         ELSE [found |-> FALSE]

\* get(tag)
GetTag(entry, tag) ==
    LET f == FindEl(entry, tag)
    IN  IF f.found /\ f.el.text \notin {NoneVal, ""} THEN clean(f.el.text) ELSE ""

\* The delimiters tested in the opposite order.
TitleSepsReversed == <<" | ", " - ", " at ">>

TitleSeps == <<" at ", " - ", " | ">>

\* for sep in [' at ', ' - ', ' | ']: if sep in title: split once, strip, break
SplitTitle(title, name) ==
    LET hits == {i \in 1..Len(TitleSeps) : Contains(title, TitleSeps[i])}
        sep  == TitleSeps[CHOOSE i \in hits : \A k \in hits : i <= k]
        at   == Find(title, sep)
    IN  IF hits = {} THEN [title |-> title, company |-> name]
        ELSE [title   |-> Strip(Prefix(title, at)),
              company |-> Strip(Suffix(title, at + Len(sep)))]

\* re.sub(r'[^a-z]', '', s)
RECURSIVE OnlyLower(_)
OnlyLower(s) ==
    IF s = "" THEN ""
    ELSE (IF Contains(LowerLetters, Head(s)) THEN Head(s) ELSE "") \o OnlyLower(Tail(s))

Slug(name) == Prefix(OnlyLower(Lower(name)), SlugLen)

RECURSIVE RssLoop(_, _, _, _)
RssLoop(items, jobs, name, now) ==
    IF items = <<>> THEN jobs
    ELSE LET item  == Head(items)
             title == GetTag(item, "title")
             d0    == GetTag(item, "description")
             desc  == clean(strip_html(IF d0 # "" THEN d0 ELSE GetTag(item, "summary")))
             l0    == GetTag(item, "link")
             lel   == FindEl(item, "link")
             link  == IF l0 # "" THEN l0 ELSE IF lel.found THEN lel.el.href ELSE ""
             tc    == SplitTitle(title, name)
             job   == Posting(Slug(name) \o "-" \o ToString(Len(jobs)),
                              tc.title, tc.company,
                              extract_county(tc.title \o " " \o desc) \o ", Kenya",
                              extract_county(tc.title \o " " \o desc),
                              detect_type(tc.title \o " " \o desc),
                              detect_sector(tc.title \o " " \o desc),
                              "Not stated", link, extract_email(desc),
                              Prefix(desc, DescCap), name, now)
         IN  IF title = "" \/ Len(title) < MinTitleLen
             THEN RssLoop(Tail(items), jobs, name, now)
             ELSE RssLoop(Tail(items), Append(jobs, job), name, now)

\* root.findall('.//item') or root.findall('.//entry') or root.findall('.//atom:entry', ns)
FeedItems(res) ==
    IF res.item # <<>> THEN res.item
    ELSE IF res.entry # <<>> THEN res.entry
    ELSE res.atom_entry

parse_rss(name, res, now) ==
    IF res.kind \in FailKinds THEN <<>>
    ELSE RssLoop(SubSeq(FeedItems(res), 1, Min(FeedCap, Len(FeedItems(res)))), <<>>, name, now)

RSS_SOURCES ==
    <<"NGO Jobs Kenya", "Career Point Kenya", "Jobs in Kenya", "UN Jobs Nairobi",
      "BrighterMonday">>

\* The adapters in the order run_all_scrapers calls them.
Adapters == <<"ReliefWeb", "Remotive">> \o RSS_SOURCES

\* What adapter number a returns on the upstream answer res.
AdapterJobs(a, res, now) ==
    IF a = 1 THEN scrape_reliefweb(res, now)
    ELSE IF a = 2 THEN scrape_remotive(res, now)
    ELSE parse_rss(Adapters[a], res, now)

\* --------------------------------------------------------------- dedup
\* f"{title.lower()[:40]}|{company.lower()[:25]}"
DedupKey(j) ==
    Prefix(Lower(j.title), TitleKeyLen) \o "|" \o Prefix(Lower(j.company), CompanyKeyLen)

\* .lower() of None raises AttributeError
deduplicate_raises(jobs) ==
    \E i \in 1..Len(jobs) : jobs[i].title = NoneVal \/ jobs[i].company = NoneVal

\* deduplicate with the membership test turned round (a key is kept when it
\* was seen before): what the loop must not be.
RECURSIVE DedupLoopInverted(_, _, _)
DedupLoopInverted(jobs, seen, unique) ==
    IF jobs = <<>> THEN unique
    ELSE LET key == DedupKey(Head(jobs))
         IN  IF key \in seen
             THEN DedupLoopInverted(Tail(jobs), seen, Append(unique, Head(jobs)))
             ELSE DedupLoopInverted(Tail(jobs), seen \cup {key}, unique)

RECURSIVE DedupLoop(_, _, _)
DedupLoop(jobs, seen, unique) ==
    IF jobs = <<>> THEN unique
    ELSE LET key == DedupKey(Head(jobs))
         IN  IF key \notin seen
             THEN DedupLoop(Tail(jobs), seen \cup {key}, Append(unique, Head(jobs)))
             ELSE DedupLoop(Tail(jobs), seen, unique)

deduplicate(jobs) == DedupLoop(jobs, {}, <<>>)

\* -------------------------------------------------------------- persistence
EmptyFn == [x \in {} |-> x]

\* The values save_jobs binds to the INSERT: every column, description[:2000].
Row(j) == [j EXCEPT !.description = Prefix(@, DescCap)]

\* ON CONFLICT (id) DO UPDATE SET ...: the columns taken from the new row.
\* helpers.py sets title, company, scraped_at; scraper.py title, scraped_at.
ConflictUpdate(trigger, old, new) ==
    IF trigger = "main"
    THEN [old EXCEPT !.title = new.title, !.scraped_at = new.scraped_at]
    ELSE [old EXCEPT !.title = new.title, !.company = new.company,
                     !.scraped_at = new.scraped_at]

\* A transaction: the committed rows it has deleted, the rows it has written
\* (inserted or updated) and the metadata it has written, all invisible to
\* other connections until COMMIT.
NoTx == [del |-> {}, ins |-> EmptyFn, meta |-> EmptyFn]

\* A save_jobs without its DELETE: what the statement must not be.
DeleteNothing(tbl) == {}

\* DELETE FROM scraped_jobs: every row of the committed relation.
DeleteAll(tbl) == DOMAIN tbl

\* The row with key id as transaction t sees it, [found, row].
Visible(tbl, t, id) ==
    IF id \in DOMAIN t.ins THEN [found |-> TRUE, row |-> t.ins[id]]
    ELSE IF id \in DOMAIN tbl /\ id \notin t.del THEN [found |-> TRUE, row |-> tbl[id]]
    ELSE [found |-> FALSE]

\* INSERT ... ON CONFLICT (id) DO UPDATE of posting j in transaction t.
Upsert(trigger, tbl, t, j) ==
    LET seen == Visible(tbl, t, j.id)
        row  == IF seen.found THEN ConflictUpdate(trigger, seen.row, Row(j)) ELSE Row(j)
    IN  [t EXCEPT !.ins = (j.id :> row) @@ @]

\* INSERT INTO scraper_meta ... ON CONFLICT (key) DO UPDATE SET value
MetaUpsert(t, key, value) == [t EXCEPT !.meta = (key :> value) @@ @]

\* conn.commit(): the relations once transaction t is applied.
CommitJobs(tbl, t) ==
    [id \in (DOMAIN tbl \ t.del) \cup DOMAIN t.ins |->
        IF id \in DOMAIN t.ins THEN t.ins[id] ELSE tbl[id]]

CommitMeta(meta, t) == t.meta @@ meta

\* A connection in autocommit mode, where the statements executed before the
\* exception stay applied: what the rollback must not be.
KeepPartial(tbl, t) == CommitJobs(tbl, t)

\* An exception before conn.commit(): the connection is dropped and Postgres
\* rolls the transaction back.
RolledBack(tbl, t) == tbl

\* Row locks: a transaction holds the rows it deleted or wrote until it ends;
\* a statement that needs one of them waits.
Holds(t, id) == id \in t.del \/ id \in DOMAIN t.ins

\* -------------------------------------------------------------------- runs
Runs == {"a", "b"}

NoTime == 0     \* None where a timestamp was expected

NoResp == [code |-> 0, success |-> FALSE, total_jobs |-> 0, scraped_at |-> NoTime]

\* A run that has not been asked for.  pc is the position in the request;
\* trigger the entry point (GET /scrape, POST /scrape, scraper.py main); token
\* the X-Admin-Token of a POST; ai the adapter to call next; got what each
\* adapter called so far was answered and returned; all_jobs, i, now the
\* locals of run_all_scrapers and save_jobs; tx the open transaction; resp
\* the HTTP answer (for main: code is the exit status, success whether
\* "finished successfully" was printed); outcome the branch the run ended in;
\* before the committed relations when the request arrived.
IdleRun ==
    [pc |-> "idle", trigger |-> "GET", token |-> "", ai |-> 0, got |-> <<>>,
     all_jobs |-> <<>>, i |-> 0, now |-> NoTime, tx |-> NoTx, resp |-> NoResp,
     outcome |-> "none", before |-> [jobs |-> EmptyFn, meta |-> EmptyFn]]

Active == {q \in Runs : runs[q].pc \notin {"idle", "done"}}

\* A request may arrive while timestamps are left for the runs in flight.
CanStart(r) ==
    /\ runs[r].pc \in {"idle", "done"}
    /\ clock + Cardinality(Active) < MaxClock

Started(trigger, token) ==
    [IdleRun EXCEPT !.pc = "init_db", !.trigger = trigger, !.token = token,
                    !.before = [jobs |-> scraped_jobs, meta |-> scraper_meta]]

\* A check that only asks for some token: what the comparison must not be.
AnyToken(token) == token # ""

\* token != ADMIN_SECRET
Authorized(token) == token = ADMIN_SECRET

Tokens == {"", "letmein", ADMIN_SECRET}

\* How a run ends when an exception leaves run_all_scrapers (HTTP: the
\* handler's except answers 500) or the script (main: exit status 1).
Crashed(run, why) ==
    [run EXCEPT !.pc = "done", !.outcome = why, !.tx = NoTx,
                !.resp = IF run.trigger = "main"
                         THEN [NoResp EXCEPT !.code = 1]
                         ELSE [NoResp EXCEPT !.code = 500]]

\* How a run ends when a statement of save_jobs raises.  helpers.save_jobs
\* catches it and returns {'total': 0, 'scraped_at': now}, which the handler
\* answers as a success; scraper.save_jobs lets it end the script.
SaveFailed(run, now) ==
    [run EXCEPT !.pc = "done", !.outcome = "save_failed", !.tx = NoTx,
                !.resp = IF run.trigger = "main"
                         THEN [NoResp EXCEPT !.code = 1]
                         ELSE [code |-> 200, success |-> TRUE, total_jobs |-> 0,
                               scraped_at |-> now]]

\* How a run ends when conn.commit() returned.
Saved(run) ==
    [run EXCEPT !.pc = "done", !.outcome = "saved", !.tx = NoTx,
                !.resp = IF run.trigger = "main"
                         THEN [code |-> 0, success |-> TRUE,
                               total_jobs |-> Len(run.all_jobs), scraped_at |-> run.now]
                         ELSE [code |-> 200, success |-> TRUE,
                               total_jobs |-> Len(run.all_jobs), scraped_at |-> run.now]]

\* GET /scrape
GetScrape(r) ==
    /\ CanStart(r)
    /\ runs' = [runs EXCEPT ![r] = Started("GET", "")]
    /\ UNCHANGED <<scraped_jobs, scraper_meta, tables, clock, reply, dd>>

\* POST /scrape with some X-Admin-Token
PostScrape(r) ==
    /\ CanStart(r)
    /\ \E token \in Tokens :
         runs' = [runs EXCEPT ![r] =
                    IF Authorized(token) THEN Started("POST", token)
                    ELSE [Started("POST", token) EXCEPT
                            !.pc = "done", !.outcome = "unauthorized",
                            !.resp = [NoResp EXCEPT !.code = 401]]]
    /\ UNCHANGED <<scraped_jobs, scraper_meta, tables, clock, reply, dd>>

\* python scraper.py, with POSTGRES_URL set or not
MainStart(r) ==
    /\ CanStart(r)
    /\ \E url_set \in BOOLEAN :
         runs' = [runs EXCEPT ![r] =
                    IF url_set THEN Started("main", "")
                    ELSE [Started("main", "") EXCEPT
                            !.pc = "done", !.outcome = "no_url",
                            !.resp = [NoResp EXCEPT !.code = 1]]]
    /\ UNCHANGED <<scraped_jobs, scraper_meta, tables, clock, reply, dd>>

\* init_db(): helpers.init_db prints the error and goes on, scraper.init_db
\* raises.
InitDb(r) ==
    /\ runs[r].pc = "init_db"
    /\ \E ok \in BOOLEAN :
         /\ tables' = (tables \/ ok)
         /\ runs' = [runs EXCEPT ![r] =
                       IF ~ok /\ @.trigger = "main" THEN Crashed(@, "init_failed")
                       ELSE [@ EXCEPT !.pc = "scrape", !.ai = 1]]
    /\ UNCHANGED <<scraped_jobs, scraper_meta, clock, reply, dd>>

\* all_jobs.extend(...)
Extend(all_jobs, jobs) == all_jobs \o jobs

\* The adapter called after adapter a (a try/except around each call).
NextAdapter(a, failed) == a + 1

\* One adapter call of run_all_scrapers; U[a] are the answers its upstream
\* may give.
Scrape(r, U) ==
    /\ runs[r].pc = "scrape"
    /\ \E res \in U[runs[r].ai] :
         LET a    == runs[r].ai
             jobs == AdapterJobs(a, res, clock)
             nxt  == NextAdapter(a, res.kind \in FailKinds)
         IN  runs' = [runs EXCEPT ![r] =
                        [@ EXCEPT !.all_jobs = Extend(@, jobs),
                                  !.got = Append(@, [adapter |-> a,
                                                     failed |-> res.kind \in FailKinds,
                                                     jobs |-> jobs]),
                                  !.ai = nxt,
                                  !.pc = IF nxt > Len(Adapters) THEN "dedupe" ELSE "scrape"]]
    /\ UNCHANGED <<scraped_jobs, scraper_meta, tables, clock, reply, dd>>

\* all_jobs = deduplicate(all_jobs)
Dedupe(r) ==
    /\ runs[r].pc = "dedupe"
    /\ runs' = [runs EXCEPT ![r] =
                  IF deduplicate_raises(@.all_jobs) THEN Crashed(@, "crashed")
                  ELSE [@ EXCEPT !.all_jobs = deduplicate(@), !.pc = "connect"]]
    /\ UNCHANGED <<scraped_jobs, scraper_meta, tables, clock, reply, dd>>

\* A statement of save_jobs raises in run r: nothing was committed.
FailStep(r) ==
    /\ runs' = [runs EXCEPT ![r] = SaveFailed(@, clock)]
    /\ scraped_jobs' = RolledBack(scraped_jobs, runs[r].tx)
    /\ scraper_meta' = scraper_meta
    /\ clock' = clock

\* A statement of save_jobs succeeds in run r, leaving it at run.
OkStep(r, run) ==
    /\ runs' = [runs EXCEPT ![r] = run]
    /\ scraped_jobs' = scraped_jobs
    /\ scraper_meta' = scraper_meta

\* conn = get_conn()
Connect(r) ==
    /\ runs[r].pc = "connect"
    /\ \E ok \in BOOLEAN :
         IF ok THEN OkStep(r, [runs[r] EXCEPT !.pc = "delete"]) /\ clock' = clock
         ELSE FailStep(r)
    /\ UNCHANGED <<tables, reply, dd>>

\* cur.execute('DELETE FROM scraped_jobs'); it waits for the rows another
\* transaction holds, and raises when the relation does not exist.
Delete(r) ==
    /\ runs[r].pc = "delete"
    /\ \E ok \in BOOLEAN :
         IF ok /\ tables
         THEN /\ \A q \in Runs \ {r} : \A id \in DOMAIN scraped_jobs : ~Holds(runs[q].tx, id)
              /\ OkStep(r, [runs[r] EXCEPT
                              !.tx.del = DeleteAll(scraped_jobs), !.i = 1,
                              !.pc = IF runs[r].all_jobs = <<>> THEN "meta_last_run"
                                     ELSE "insert"])
              /\ clock' = clock
         ELSE FailStep(r)
    /\ UNCHANGED <<tables, reply, dd>>

\* for j in jobs: cur.execute('INSERT ... ON CONFLICT (id) DO UPDATE ...'); it
\* waits while another transaction holds a row with the same id.
Insert(r) ==
    /\ runs[r].pc = "insert"
    /\ \E ok \in BOOLEAN :
         IF ok
         THEN LET j == runs[r].all_jobs[runs[r].i]
              IN  /\ \A q \in Runs \ {r} : ~Holds(runs[q].tx, j.id)
                  /\ OkStep(r, [runs[r] EXCEPT
                                  !.tx = Upsert(runs[r].trigger, scraped_jobs, @, j),
                                  !.i = @ + 1,
                                  !.pc = IF runs[r].i = Len(runs[r].all_jobs)
                                         THEN "meta_last_run" ELSE "insert"])
                  /\ clock' = clock
         ELSE FailStep(r)
    /\ UNCHANGED <<tables, reply, dd>>

\* now = datetime.now().isoformat(); upsert of ('last_run', now)
MetaLastRun(r) ==
    /\ runs[r].pc = "meta_last_run"
    /\ \E ok \in BOOLEAN :
         IF ok
         THEN /\ \A q \in Runs \ {r} : "last_run" \notin DOMAIN runs[q].tx.meta
              /\ OkStep(r, [runs[r] EXCEPT
                              !.now = clock + 1,
                              !.tx = MetaUpsert(@, "last_run", clock + 1),
                              !.pc = "meta_total"])
              /\ clock' = clock + 1
         ELSE FailStep(r)
    /\ UNCHANGED <<tables, reply, dd>>

\* upsert of ('total_jobs', str(len(jobs)))
MetaTotal(r) ==
    /\ runs[r].pc = "meta_total"
    /\ \E ok \in BOOLEAN :
         IF ok
         THEN /\ \A q \in Runs \ {r} : "total_jobs" \notin DOMAIN runs[q].tx.meta
              /\ OkStep(r, [runs[r] EXCEPT
                              !.tx = MetaUpsert(@, "total_jobs",
                                                ToString(Len(runs[r].all_jobs))),
                              !.pc = "commit"])
              /\ clock' = clock
         ELSE FailStep(r)
    /\ UNCHANGED <<tables, reply, dd>>

\* conn.commit(), and the answer
Commit(r) ==
    /\ runs[r].pc = "commit"
    /\ \E ok \in BOOLEAN :
         IF ok
         THEN /\ scraped_jobs' = CommitJobs(scraped_jobs, runs[r].tx)
              /\ scraper_meta' = CommitMeta(scraper_meta, runs[r].tx)
              /\ runs' = [runs EXCEPT ![r] = Saved(@)]
              /\ clock' = clock
         ELSE FailStep(r)
    /\ UNCHANGED <<tables, reply, dd>>

\* ----------------------------------------------------- upstream answers
Fail(kind) == [kind |-> kind]

RwOk(items)  == [kind |-> "ok", data |-> items]
RemOk(items) == [kind |-> "ok", jobs |-> items]

El(text) == [text |-> text, kids |-> FALSE, href |-> ""]

\* <entry> of an Atom feed: title, summary and link (an href) in the namespace
AtomEntry(title, summary, href) ==
    [plain |-> EmptyFn,
     atom  |-> [title |-> El(title), summary |-> El(summary),
                link |-> [text |-> NoneVal, kids |-> FALSE, href |-> href]]]

\* <item> of an RSS feed: title, description and link without namespace
RssItem(title, description, link) ==
    [plain |-> [title |-> El(title), description |-> El(description), link |-> El(link)],
     atom  |-> EmptyFn]

AtomFeed(entries) == [kind |-> "ok", item |-> <<>>, entry |-> <<>>, atom_entry |-> entries]
RssFeed(items)    == [kind |-> "ok", item |-> items, entry |-> <<>>, atom_entry |-> <<>>]

RwNurse  == [id |-> 1, title |-> "Nurse", source |-> <<[name |-> "Acme"]>>,
             body |-> "<p>Clinic in Kisumu</p>", url |-> "https://rw/1", created |-> 1]
\* no upstream id: the ordinal is used
RwDriver == [title |-> " Driver ", body |-> "County transport", url |-> "https://rw/x"]
RwClerk  == [id |-> 3, title |-> "Clerk", source |-> <<[name |-> "KRA"]>>, url |-> "https://rw/3"]
\* "name": null
RwNull   == [id |-> 4, title |-> "Tutor", source |-> <<[name |-> NoneVal]>>]
RwBar    == [id |-> 5, title |-> "Clerk|KRA", source |-> <<[name |-> "Ltd"]>>]

RemNurse == [title |-> "NURSE", company_name |-> " ACME ", category |-> "Health",
             url |-> "https://rem/1", publication_date |-> 2]
RemClerk == [title |-> "Clerk", company_name |-> "KRA|Ltd", category |-> "Admin", salary |-> "1k"]
RemNoCat == [title |-> "Chef", company_name |-> "Inn", category |-> NoneVal]

LongTitleA == "Senior Programme Management Officer (Health Systems) at WHO"
LongTitleB == "Senior Programme Management Officer (Health Policy) at WHO"

\* A description longer than the cap.
LongText ==
    LET Twice(s) == s \o s
    IN  Twice(Twice(Twice(Twice(Twice(Twice(Twice(Twice("0123456789"))))))))
RemLong  == [title |-> "Writer", company_name |-> "Pen", category |-> "Media",
             description |-> LongText]

\* The answers each upstream may give in the sequential runs.
SmallU ==
    <<  {Fail("timeout"), RwOk(<<>>), RwOk(<<RwNurse>>), RwOk(<<RwNurse, RwDriver>>)},
        {Fail("http_error"), RemOk(<<RemNurse>>)},
        {Fail("malformed"), AtomFeed(<<AtomEntry("Accountant at Acme Ltd", "Apply: hr@acme.co.ke", "https://f/1")>>)},
        {Fail("timeout")}, {Fail("timeout")}, {Fail("timeout")}, {Fail("timeout")} >>

\* The answers each upstream may give in the single run of the pipeline.
RichU ==
    <<  {Fail("timeout"), Fail("http_error"), RwOk(<<>>), RwOk(<<RwNurse>>),
         RwOk(<<RwNurse, RwDriver>>), RwOk(<<[junk |-> TRUE], RwNull>>), RwOk(<<RwBar>>)},
        {Fail("malformed"), RemOk(<<RemNurse>>), RemOk(<<RemNoCat, RemClerk>>)},
        {Fail("timeout"), AtomFeed(<<AtomEntry("Nurse at Acme", "", "https://f/1")>>)},
        {Fail("http_error"), AtomFeed(<<AtomEntry("Driver - NGO", "", "https://f/2")>>)},
        {Fail("malformed"), RssFeed(<<RssItem("Accountant at Acme Ltd", "", "https://f/3")>>),
         AtomFeed(<<AtomEntry("abc", "", ""), AtomEntry("Accountant", "", "https://f/3")>>)},
        {Fail("timeout"), AtomFeed(<<AtomEntry(LongTitleA, "", "https://f/4")>>)},
        {Fail("timeout"), AtomFeed(<<AtomEntry(LongTitleB, "", "https://f/5")>>)} >>

\* The answers each upstream may give to the concurrent runs.
TinyU ==
    <<  {RwOk(<<RwNurse>>), RwOk(<<RwClerk>>)},
        {Fail("http_error")}, {Fail("timeout")}, {Fail("timeout")}, {Fail("timeout")},
        {Fail("timeout")}, {Fail("timeout")} >>

\* ------------------------------------------------------------ specifications
NoQuery == [county |-> "", type |-> "", q |-> "", limit |-> 0]

\* No read request answered yet.  kind is the endpoint, code the HTTP status,
\* query the parameters of a GET /jobs, jobs its 'jobs' list, total_jobs its
\* 'total' (for /status: 'total_jobs'), last_run its 'scraped_at' (for
\* /status: 'last_run'), message whether the body holds a 'message'.
NoReply ==
    [kind |-> "none", code |-> 0, status |-> "none", total_jobs |-> 0, last_run |-> NoTime,
     read_ok |-> FALSE, query |-> NoQuery, jobs |-> <<>>, message |-> FALSE]
NoDd    == [pc |-> "off", x |-> <<>>, out |-> <<>>, again |-> <<>>]

Init ==
    /\ scraped_jobs = EmptyFn
    /\ scraper_meta = EmptyFn
    /\ tables = FALSE
    /\ clock = 0
    /\ runs = [r \in Runs |-> IdleRun]
    /\ reply = NoReply
    /\ dd = NoDd

\* One step of run r against the upstreams U.
RunStep(r, U) ==
    \/ GetScrape(r)
    \/ PostScrape(r)
    \/ MainStart(r)
    \/ InitDb(r)
    \/ Scrape(r, U)
    \/ Dedupe(r)
    \/ Connect(r)
    \/ Delete(r)
    \/ Insert(r)
    \/ MetaLastRun(r)
    \/ MetaTotal(r)
    \/ Commit(r)

\* Requests served one at a time, any number of them.
Next == RunStep("a", SmallU)

Spec == Init /\ [][Next]_vars

\* One committed run of the whole pipeline on an empty store.
InitPipe ==
    /\ scraped_jobs = EmptyFn
    /\ scraper_meta = EmptyFn
    /\ tables = FALSE
    /\ clock = MaxClock - 1
    /\ runs = [r \in Runs |-> IdleRun]
    /\ reply = NoReply
    /\ dd = NoDd

NextPipe == RunStep("a", RichU)

SpecPipe == InitPipe /\ [][NextPipe]_vars

\* Two requests served at the same time (the cron GET and a manual POST, or
\* the standalone script).
InitConc ==
    /\ scraped_jobs = EmptyFn
    /\ scraper_meta = EmptyFn
    /\ tables = FALSE
    /\ clock = MaxClock - 2
    /\ runs = [r \in Runs |-> IdleRun]
    /\ reply = NoReply
    /\ dd = NoDd

NextConc == \E r \in Runs : RunStep(r, TinyU)

SpecConc == InitConc /\ [][NextConc]_vars

\* One run over answers of every shape the adapters take: items with and
\* without id, source and body, descriptions over the cap, feed titles with
\* one, several and no delimiter, and titles too short to keep.
EmitU ==
    <<  {Fail("timeout"), RwOk(<<RwNurse, RwDriver>>), RwOk(<<RwBar, RwClerk>>)},
        {Fail("http_error"), RemOk(<<RemLong>>), RemOk(<<RemNurse, RemNoCat>>)},
        {Fail("malformed"),
         AtomFeed(<<AtomEntry("Accountant at Acme Ltd", "Apply: hr@acme.co.ke", "https://f/1")>>)},
        {AtomFeed(<<AtomEntry("Field Officer - Oxfam | Kisumu", "<b>Remote</b> internship", "")>>)},
        {Fail("timeout"), AtomFeed(<<AtomEntry("abc", "", ""), AtomEntry("Tax Intern", "", "https://f/3")>>)},
        {Fail("timeout")}, {Fail("timeout")} >>

NextEmit == RunStep("a", EmitU)

SpecEmit == InitPipe /\ [][NextEmit]_vars

\* ------------------------------------------------------------- read surface
\* load_jobs() as the status handler calls it: the rows the query returns are
\* counted after LIMIT, scraped_at is the last_run of scraper_meta; on any
\* exception the empty answer.
load_jobs(tbl, meta, limit, ok) ==
    IF ok
    THEN [total      |-> Min(Cardinality(DOMAIN tbl), limit),
          scraped_at |-> Get(meta, "last_run", NoTime)]
    ELSE [total |-> 0, scraped_at |-> NoTime]

\* GET /status.  load_jobs never returns an empty dict, so the handler always
\* answers status 'ok'.  read_ok records whether the queries went through.
GetStatus ==
    /\ \E ok \in BOOLEAN :
         LET data == load_jobs(scraped_jobs, scraper_meta, DefaultLimit, ok /\ tables)
         IN  reply' = [NoReply EXCEPT !.kind = "status", !.code = 200, !.status = "ok",
                                      !.total_jobs = data.total,
                                      !.last_run = data.scraped_at,
                                      !.read_ok = ok /\ tables, !.message = TRUE]
    /\ UNCHANGED <<scraped_jobs, scraper_meta, tables, clock, runs, dd>>

\* The largest of a non-empty set of timestamps.
MaxOf(S) == CHOOSE x \in S : \A y \in S : y <= x

\* The lists SELECT ... ORDER BY scraped_at DESC LIMIT n may return from the
\* rows ids of tbl: a newest row first, any of them when several are as new.
\* The first n are the first n \div 2 followed by the first of what is left.
RECURSIVE TopRows(_, _, _)
TopRows(tbl, ids, n) ==
    IF n = 0 \/ ids = {} THEN {<<>>}
    ELSE IF n = 1
         THEN LET m == MaxOf({tbl[id].scraped_at : id \in ids})
              IN  {<<tbl[id]>> : id \in {i \in ids : tbl[i].scraped_at = m}}
    ELSE UNION {{first \o rest :
                   rest \in TopRows(tbl, ids \ {first[k].id : k \in 1..Len(first)}, n - (n \div 2))} :
                first \in TopRows(tbl, ids, n \div 2)}

\* The three filters of the handler, each applied when its parameter is set:
\* [j for j in jobs if param in j[field].lower()]
ApplyFilters(jobs, query) ==
    LET county  == Lower(query.county)
        jtype   == Lower(query.type)
        keyword == Lower(query.q)
        InCounty(j)  == Contains(Lower(j.county), county)
        InType(j)    == Contains(Lower(j.type), jtype)
        InKeyword(j) == Contains(Lower(j.title \o " " \o j.company), keyword)
        j1 == IF county = "" THEN jobs ELSE SelectSeq(jobs, InCounty)
        j2 == IF jtype = "" THEN j1 ELSE SelectSeq(j1, InType)
    IN  IF keyword = "" THEN j2 ELSE SelectSeq(j2, InKeyword)

\* The largest limit the handler passes on: min(int(limit), 200)
LimitCap == 200

\* The queries tried: each filter unset or set, in either case, and limits
\* below, at and above the default and the cap.
Queries ==
    [county : {"", "Nairobi"}, type : {"", "remote"}, q : {"", "coder", "Clerk"},
     limit : {1, DefaultLimit, LimitCap + 1}]

\* Those of them tried on a large store: more than the cap asked for, at most
\* one of the county and type filters set.
LargeQueries ==
    {query \in Queries : /\ query.limit > LimitCap
                         /\ query.county = "" \/ query.type = ""
                         /\ query.q # "Clerk"}

\* GET /jobs?county=&type=&q=&limit=, answered between runs.  load_jobs is
\* called without arguments: LIMIT 80 and no filter in the SQL.
GetJobs(Qs) ==
    /\ Active = {}
    /\ \E ok \in BOOLEAN :
         LET data == load_jobs(scraped_jobs, scraper_meta, DefaultLimit, ok /\ tables)
         IN  \E rows \in TopRows(scraped_jobs, DOMAIN scraped_jobs, data.total) :
               \E query \in Qs :
                 LET limit == Min(query.limit, LimitCap)
                     jobs  == ApplyFilters(rows, query)
                 IN  reply' = [NoReply EXCEPT !.kind = "jobs", !.code = 200,
                                              !.query = query,
                                              !.total_jobs = Len(jobs),
                                              !.last_run = data.scraped_at,
                                              !.jobs = Prefix(jobs, limit),
                                              !.read_ok = ok /\ tables]
    /\ UNCHANGED <<scraped_jobs, scraper_meta, tables, clock, runs, dd>>

\* Upstream answers with many postings: n openings at ReliefWeb (its query
\* asks for at most RwLimit), n at Remotive.
RwLimit == 50

RwMany(n) ==
    RwOk([i \in 1..n |-> [id |-> i, title |-> "Officer " \o ToString(i),
                          source |-> <<[name |-> "Org"]>>, created |-> i]])

RemMany(n) ==
    RemOk([i \in 1..n |-> [title |-> "Coder " \o ToString(i),
                            company_name |-> "Co", category |-> "IT",
                            publication_date |-> RwLimit + i]])

\* The answers each upstream gives in a run that finds MaxRows postings.
ManyU ==
    <<  {RwMany(Min(MaxRows, RwLimit))}, {RemMany(MaxRows - Min(MaxRows, RwLimit))},
        {Fail("timeout")}, {Fail("timeout")}, {Fail("timeout")}, {Fail("timeout")},
        {Fail("timeout")} >>

\* One run that finds MaxRows postings, and status requests at any time.
InitRead ==
    /\ scraped_jobs = EmptyFn
    /\ scraper_meta = EmptyFn
    /\ tables = FALSE
    /\ clock = MaxClock - 1
    /\ runs = [r \in Runs |-> IdleRun]
    /\ reply = NoReply
    /\ dd = NoDd

NextRead == RunStep("a", ManyU) \/ GetStatus

SpecRead == InitRead /\ [][NextRead]_vars

\* The same run, and GET /jobs once it has committed (no timestamp is left
\* for another run).
NextJobs == RunStep("a", ManyU) \/ (clock = MaxClock /\ GetJobs(LargeQueries))

SpecJobs == InitRead /\ [][NextJobs]_vars

\* A database no run has written to, its relations created or not, and the
\* two read endpoints.
InitNoData ==
    /\ scraped_jobs = EmptyFn
    /\ scraper_meta = EmptyFn
    /\ tables \in BOOLEAN
    /\ clock = 0
    /\ runs = [r \in Runs |-> IdleRun]
    /\ reply = NoReply
    /\ dd = NoDd

NextNoData == GetStatus \/ GetJobs(Queries)

SpecNoData == InitNoData /\ [][NextNoData]_vars

\* ----------------------------------------------------- deduplicate by itself
\* Postings as the adapters emit them, some of them equal under the key.
DdPool ==
    scrape_reliefweb(RwOk(<<RwNurse, RwClerk, RwBar>>), 1)
    \o scrape_remotive(RemOk(<<RemNurse, RemClerk>>), 1)
    \o parse_rss(RSS_SOURCES[1], AtomFeed(<<AtomEntry(LongTitleA, "", "https://f/4")>>), 1)
    \o parse_rss(RSS_SOURCES[2], AtomFeed(<<AtomEntry(LongTitleB, "", "https://f/5")>>), 1)

DdLists == UNION {[1..n -> {DdPool[k] : k \in 1..Len(DdPool)}] : n \in 0..MaxLen}

InitDedup ==
    /\ scraped_jobs = EmptyFn
    /\ scraper_meta = EmptyFn
    /\ tables = FALSE
    /\ clock = 0
    /\ runs = [r \in Runs |-> IdleRun]
    /\ reply = NoReply
    /\ dd \in {[pc |-> "input", x |-> x, out |-> <<>>, again |-> <<>>] : x \in DdLists}

\* out = deduplicate(x)
DedupOnce ==
    /\ dd.pc = "input"
    /\ dd' = [dd EXCEPT !.pc = "once", !.out = deduplicate(dd.x)]
    /\ UNCHANGED <<scraped_jobs, scraper_meta, tables, clock, runs, reply>>

\* again = deduplicate(out)
DedupTwice ==
    /\ dd.pc = "once"
    /\ dd' = [dd EXCEPT !.pc = "twice", !.again = deduplicate(dd.out)]
    /\ UNCHANGED <<scraped_jobs, scraper_meta, tables, clock, runs, reply>>

NextDedup == DedupOnce \/ DedupTwice

SpecDedup == InitDedup /\ [][NextDedup]_vars

Finished(r, outcome) == runs[r].pc = "done" /\ runs[r].outcome = outcome

\* ------------------------------------------------- the two entry points compared
\* The same answers of the upstreams for both runs: the answers of ReliefWeb,
\* of Remotive and of the first feed vary, the other feeds fail.
TwinAnswers ==
    {<<rw, rem, feed, Fail("timeout"), Fail("timeout"), Fail("timeout"), Fail("timeout")>> :
        rw   \in {Fail("timeout"), RwOk(<<RwNurse, RwDriver>>), RwOk(<<RwBar, RwClerk>>)},
        rem  \in {Fail("http_error"), RemOk(<<RemNurse, RemClerk>>)},
        feed \in {Fail("malformed"),
                  AtomFeed(<<AtomEntry("Accountant at Acme Ltd", "Apply: hr@acme.co.ke", "https://f/1")>>)}}

\* What the upstreams answer in the run at hand.
TwinU == [k \in 1..Len(Adapters) |-> {dd.pick[k]}]

\* The storage both runs start on: nothing, or the row and the metadata an
\* earlier run left.
OldRow == scrape_remotive(RemOk(<<RemClerk>>), 1)[1]

PriorStorage ==
    {[jobs |-> EmptyFn, meta |-> EmptyFn, tables |-> FALSE],
     [jobs |-> (OldRow.id :> Row(OldRow)), meta |-> [last_run |-> 1, total_jobs |-> "1"],
      tables |-> TRUE]}

\* dd keeps what the two runs share (the answers pick, the storage prior and
\* the time) and what the HTTP run left (jobs, meta).
InitTwin ==
    /\ \E prior \in PriorStorage :
         /\ scraped_jobs = prior.jobs
         /\ scraper_meta = prior.meta
         /\ tables = prior.tables
         /\ \E pick \in TwinAnswers :
              dd = [pc |-> "http", pick |-> pick, prior |-> prior,
                    jobs |-> EmptyFn, meta |-> EmptyFn]
    /\ clock = MaxClock - 1
    /\ runs = [r \in Runs |-> IdleRun]
    /\ reply = NoReply

\* GET or POST /scrape: run_all_scrapers of helpers.py
TwinHttpStart ==
    /\ dd.pc = "http"
    /\ runs["a"].pc = "idle"
    /\ (GetScrape("a") \/ PostScrape("a"))

\* python scraper.py on the storage and at the time the HTTP run began
TwinMainStart ==
    /\ dd.pc = "main"
    /\ runs["b"].pc = "idle"
    /\ MainStart("b")

\* The steps of a run after its start.
TwinSteps(r) ==
    \/ InitDb(r)
    \/ Scrape(r, TwinU)
    \/ Dedupe(r)
    \/ Connect(r)
    \/ Delete(r)
    \/ Insert(r)
    \/ MetaLastRun(r)
    \/ MetaTotal(r)
    \/ Commit(r)

\* The HTTP run has committed: what it left is kept in dd, and the storage
\* and the time are put back to where it began, for the script to run on.
TwinRewind ==
    /\ dd.pc = "http"
    /\ Finished("a", "saved")
    /\ dd' = [dd EXCEPT !.pc = "main", !.jobs = scraped_jobs, !.meta = scraper_meta]
    /\ scraped_jobs' = dd.prior.jobs
    /\ scraper_meta' = dd.prior.meta
    /\ tables' = dd.prior.tables
    /\ clock' = MaxClock - 1
    /\ UNCHANGED <<runs, reply>>

NextTwin ==
    \/ TwinHttpStart
    \/ TwinSteps("a")
    \/ TwinRewind
    \/ TwinMainStart
    \/ TwinSteps("b")

SpecTwin == InitTwin /\ [][NextTwin]_vars

\* ---------------------------------------------------- classifiers by themselves
\* Texts of up to MaxLen words as the adapters pass them (title + ' ' + body):
\* keywords of the type rules, region names, 'remote' and 'online', in
\* mixed case, and a word that no rule knows; also '' and None.
ClassifyWords ==
    <<"Intern", "MINISTRY", "Casual", "Oxfam", "Remote", "Consultant",
      "Mombasa", "NAIROBI", "online", "Clerk">>

RECURSIVE TextOf(_)
TextOf(ws) ==
    IF ws = <<>> THEN ""
    ELSE IF Len(ws) = 1 THEN ClassifyWords[ws[1]]
    ELSE ClassifyWords[ws[1]] \o " " \o TextOf(Tail(ws))

ClassifyTexts ==
    {NoneVal} \cup {TextOf(ws) : ws \in UNION {[1..n -> 1..Len(ClassifyWords)] : n \in 0..MaxLen}}

InitClassify ==
    /\ scraped_jobs = EmptyFn
    /\ scraper_meta = EmptyFn
    /\ tables = FALSE
    /\ clock = 0
    /\ runs = [r \in Runs |-> IdleRun]
    /\ reply = NoReply
    /\ dd \in {[pc |-> "text", x |-> x, out |-> "", again |-> ""] : x \in ClassifyTexts}

\* out = detect_type(x)
DetectType ==
    /\ dd.pc = "text"
    /\ dd' = [dd EXCEPT !.pc = "type", !.out = detect_type(dd.x)]
    /\ UNCHANGED <<scraped_jobs, scraper_meta, tables, clock, runs, reply>>

\* out = extract_county(x)
ExtractCounty ==
    /\ dd.pc = "text"
    /\ dd' = [dd EXCEPT !.pc = "county", !.out = extract_county(dd.x)]
    /\ UNCHANGED <<scraped_jobs, scraper_meta, tables, clock, runs, reply>>

NextClassify == DetectType \/ ExtractCounty

SpecClassify == InitClassify /\ [][NextClassify]_vars

\* ------------------------------------------------------ feed titles by themselves
\* Feed titles of up to MaxLen pieces: words, the three delimiters, a title
\* that holds a delimiter itself, and white space.
TitlePieces == <<"Accountant", "Acme Ltd", "Data | IT", " at ", " - ", " | ", "  ">>

RECURSIVE TitleOf(_)
TitleOf(ps) == IF ps = <<>> THEN "" ELSE TitlePieces[Head(ps)] \o TitleOf(Tail(ps))

FeedTitles == {TitleOf(ps) : ps \in UNION {[1..n -> 1..Len(TitlePieces)] : n \in 0..MaxLen}}

\* A feed of one entry with the title, in either of the two shapes.
FeedOf(shape, title) ==
    IF shape = "atom" THEN AtomFeed(<<AtomEntry(title, "Apply today", "https://f/1")>>)
    ELSE RssFeed(<<RssItem(title, "Apply today", "https://f/1")>>)

InitFeed ==
    /\ scraped_jobs = EmptyFn
    /\ scraper_meta = EmptyFn
    /\ tables = FALSE
    /\ clock = 0
    /\ runs = [r \in Runs |-> IdleRun]
    /\ reply = NoReply
    /\ dd \in {[pc |-> "feed", x |-> x, shape |-> sh, out |-> <<>>] :
                  x \in FeedTitles, sh \in {"atom", "rss"}}

\* out = parse_rss(name, feed)
ParseFeed ==
    /\ dd.pc = "feed"
    /\ dd' = [dd EXCEPT !.pc = "parsed", !.out = parse_rss(RSS_SOURCES[1], FeedOf(dd.shape, dd.x), 1)]
    /\ UNCHANGED <<scraped_jobs, scraper_meta, tables, clock, runs, reply>>

NextFeed == ParseFeed

SpecFeed == InitFeed /\ [][NextFeed]_vars

\* ------------------------------------------------------------------- claims

\* The stored relation holds the postings of list S and nothing else, one row
\* for each, every column as given.
StoredExactly(tbl, S) ==
    /\ Cardinality(DOMAIN tbl) = Len(S)
    /\ \A k \in 1..Len(S) : S[k].id \in DOMAIN tbl /\ tbl[S[k].id] = S[k]

\* C1 (Spec): when requests are served one at a time, after a run whose write
\* committed the stored relation equals the list handed to save_jobs, row for
\* row and field for field, also when two of its postings have the same id.
C1_FullReplace ==
    \A r \in Runs :
        Finished(r, "saved") => StoredExactly(scraped_jobs, runs[r].all_jobs)

\* C2 (Spec): when a statement of the write raises, whether the connect, the
\* DELETE, an INSERT, a metadata upsert or the commit, the stored postings
\* and the metadata are what they were when the run began.
C2_FailedWriteChangesNothing ==
    \A r \in Runs :
        Finished(r, "save_failed") =>
            /\ scraped_jobs = runs[r].before.jobs
            /\ scraper_meta = runs[r].before.meta

\* A write that failed after its DELETE, its INSERTs and the last_run upsert,
\* over a store that held postings.
C2_Witness ==
    \E r \in Runs :
        /\ Finished(r, "save_failed")
        /\ runs[r].before.jobs # EmptyFn
        /\ runs[r].i > Len(runs[r].all_jobs) /\ runs[r].all_jobs # <<>>
        /\ runs[r].now # NoTime
        /\ scraped_jobs = runs[r].before.jobs

\* C3 (Spec): a run whose write failed is reported as failed: GET and POST
\* /scrape answer with an error status and never success:true, scraper.py
\* exits non-zero without printing that it finished successfully.
C3_FailureSurfaced ==
    \A r \in Runs :
        Finished(r, "save_failed") =>
            /\ ~runs[r].resp.success
            /\ IF runs[r].trigger = "main" THEN runs[r].resp.code # 0
               ELSE runs[r].resp.code >= 400

\* C4 (SpecConc): when two runs are served at the same time and both have
\* committed, the stored postings are exactly those one of them wrote, and
\* last_run and total_jobs are that run's.
C4_RunsDoNotInterleave ==
    (\A r \in Runs : Finished(r, "saved")) =>
        \E r \in Runs :
            /\ StoredExactly(scraped_jobs, runs[r].all_jobs)
            /\ scraper_meta = ("last_run" :> runs[r].now
                               @@ "total_jobs" :> ToString(Len(runs[r].all_jobs)))

\* C5 (Spec): a POST /scrape whose token is missing or is not the secret is
\* answered 401 at once: the request ends in that step with no adapter
\* called, and the stored postings and metadata are left as they were.
C5_UnauthorizedPostDoesNothing ==
    [][\A r \in Runs :
          (/\ runs[r].pc \in {"idle", "done"}
           /\ runs'[r] # runs[r]
           /\ runs'[r].trigger = "POST"
           /\ runs'[r].token # ADMIN_SECRET)
          => /\ runs'[r].pc = "done"
             /\ runs'[r].resp.code = 401 /\ ~runs'[r].resp.success
             /\ runs'[r].got = <<>> /\ runs'[r].tx = NoTx
             /\ scraped_jobs' = scraped_jobs
             /\ scraper_meta' = scraper_meta]_vars

\* A POST with a wrong token refused while the store holds postings.
C5_Witness ==
    \E r \in Runs :
        /\ Finished(r, "unauthorized")
        /\ runs[r].token = "letmein"
        /\ runs[r].resp.code = 401
        /\ scraped_jobs # EmptyFn
        /\ scraped_jobs = runs[r].before.jobs

\* The postings of the adapters of a run, in the order they were called.
RECURSIVE Encountered(_)
Encountered(got) ==
    IF got = <<>> THEN <<>> ELSE Head(got).jobs \o Encountered(Tail(got))

\* C6 (SpecPipe): a run ends without a persistence failure only after every
\* adapter was called in order, whichever of them failed, and then it reports
\* success with the number of postings left when the postings of the
\* adapters that answered are deduplicated, which is also the total_jobs it
\* stored.
C6_FaultIsolation ==
    \A r \in Runs :
        (runs[r].pc = "done"
         /\ runs[r].outcome \notin {"unauthorized", "no_url", "init_failed", "save_failed"})
        => /\ runs[r].resp.success
           /\ Len(runs[r].got) = Len(Adapters)
           /\ \A k \in 1..Len(runs[r].got) : runs[r].got[k].adapter = k
           /\ runs[r].resp.total_jobs = Len(deduplicate(Encountered(runs[r].got)))
           /\ scraper_meta["total_jobs"] = ToString(runs[r].resp.total_jobs)

\* C7 (Spec): a run in which no adapter returns a posting, and whose write
\* committed, leaves the stored relation empty, total_jobs 0 and last_run the
\* time of that run.
C7_EmptyRunReplaces ==
    \A r \in Runs :
        (Finished(r, "saved") /\ Len(runs[r].got) = Len(Adapters)
         /\ \A k \in 1..Len(runs[r].got) : runs[r].got[k].jobs = <<>>)
        => /\ scraped_jobs = EmptyFn
           /\ scraper_meta = ("last_run" :> runs[r].now @@ "total_jobs" :> "0")
           /\ runs[r].now = clock

\* Such a run over a store that held postings.
C7_Witness ==
    \E r \in Runs :
        /\ Finished(r, "saved") /\ Len(runs[r].got) = Len(Adapters)
        /\ \A k \in 1..Len(runs[r].got) : runs[r].got[k].jobs = <<>>
        /\ runs[r].before.jobs # EmptyFn
        /\ scraped_jobs = EmptyFn

\* The pair two postings are the same job by.
PairOf(j) == <<Prefix(Lower(j.title), TitleKeyLen), Prefix(Lower(j.company), CompanyKeyLen)>>

\* The postings of X that no earlier posting of X shares its pair with, in
\* the order of X.
RECURSIVE FirstOfEachPair(_, _)
FirstOfEachPair(X, k) ==
    IF k = 0 THEN <<>>
    ELSE IF \E m \in 1..(k - 1) : PairOf(X[m]) = PairOf(X[k])
         THEN FirstOfEachPair(X, k - 1)
         ELSE Append(FirstOfEachPair(X, k - 1), X[k])

\* C8 (SpecPipe): the list a run hands to save_jobs is, of the postings of
\* ReliefWeb, Remotive and the feeds in that order, the first posting of each
\* (lowercase title[:40], lowercase company[:25]) pair, in encounter order.
C8_FirstWinsByPair ==
    \A r \in Runs :
        Finished(r, "saved") =>
            LET X == Encountered(runs[r].got)
            IN  runs[r].all_jobs = FirstOfEachPair(X, Len(X))

\* C9 (SpecDedup): for every list x of postings, deduplicate(deduplicate(x))
\* is deduplicate(x), and deduplicate(x) is no longer than x.
C9_DedupIdempotent ==
    /\ dd.pc \in {"once", "twice"} => Len(dd.out) <= Len(dd.x)
    /\ dd.pc = "twice" => dd.again = dd.out /\ Len(dd.again) = Len(dd.out)

\* A list of three postings of which two are one job, deduplicated twice.
C9_Witness ==
    /\ dd.pc = "twice"
    /\ Len(dd.x) = MaxLen
    /\ Len(dd.out) = 2
    /\ dd.again = dd.out

\* int(value) of a total_jobs value
ParseInt(str) == CHOOSE n \in 0..(MaxRows + 1) : ToString(n) = str

\* C10 (SpecRead): once a run has committed, every GET /status whose queries
\* go through reports the total_jobs and the last_run of scraper_meta,
\* however many rows scraped_jobs holds.
C10_StatusFromMetadata ==
    [][(reply' # reply /\ reply'.read_ok /\ "last_run" \in DOMAIN scraper_meta)
       => /\ reply'.total_jobs = ParseInt(scraper_meta["total_jobs"])
          /\ reply'.last_run = scraper_meta["last_run"]]_vars

\* C11 (SpecNoData): while scraper_meta is empty or the queries do not go
\* through, no read answer is a 500, GET /status answers status no_data or
\* error, never ok, and GET /jobs answers total 0, no jobs and a message.
C11_NoDataReported ==
    [][(reply' # reply /\ (scraper_meta = EmptyFn \/ ~reply'.read_ok))
       => /\ reply'.code # 500
          /\ reply'.kind = "status" => reply'.status \in {"no_data", "error"}
          /\ reply'.kind = "jobs" =>
                reply'.total_jobs = 0 /\ reply'.jobs = <<>> /\ reply'.message]_vars

\* Posting j matches a query: each parameter that is set occurs, whatever the
\* case, in the county, in the type, in the title or the company.
Matches(j, query) ==
    /\ Contains(Lower(j.county), Lower(query.county))
    /\ Contains(Lower(j.type), Lower(query.type))
    /\ \/ Contains(Lower(j.title), Lower(query.q))
       \/ Contains(Lower(j.company), Lower(query.q))

\* jobs are the first min(limit, 200, number of matches) of the rows of tbl
\* that match the query, newest first.
ExactAnswer(tbl, query, jobs) ==
    LET matching == {id \in DOMAIN tbl : Matches(tbl[id], query)}
        returned == {jobs[k].id : k \in 1..Len(jobs)}
    IN  /\ Len(jobs) = Min(Min(query.limit, LimitCap), Cardinality(matching))
        /\ Cardinality(returned) = Len(jobs)
        /\ \A k \in 1..Len(jobs) : jobs[k].id \in matching /\ jobs[k] = tbl[jobs[k].id]
        /\ \A k \in 1..(Len(jobs) - 1) : jobs[k].scraped_at >= jobs[k + 1].scraped_at
        /\ \A id \in matching \ returned :
              \A k \in 1..Len(jobs) : tbl[id].scraped_at <= jobs[k].scraped_at

\* C12 (SpecJobs): every GET /jobs whose queries go through returns exactly
\* the first min(limit, 200, number of matches) stored postings that match
\* its filters, most recently fetched first.
C12_JobsQueryExact ==
    [][(reply' # reply /\ reply'.kind = "jobs" /\ reply'.read_ok)
       => ExactAnswer(scraped_jobs, reply'.query, reply'.jobs)]_vars

\* The enumerations of the posting schema.
TypeEnum ==
    {"Internship", "Part-Time", "Government", "NGO", "Remote", "Contract", "Full-Time"}

RegionEnum == {Counties[i] : i \in 1..Len(Counties)} \cup {"Remote", "Nairobi"}

SectorEnum ==
    {"ICT & Technology", "Health & Medicine", "Finance & Banking", "Engineering",
     "Education", "Agriculture", "Marketing & Sales", "NGO / Non-Profit", "Legal",
     "Transport & Logistics", "General"}

PostingOk(j) ==
    /\ j.title \notin {"", NoneVal}
    /\ j.type \in TypeEnum
    /\ j.county \in RegionEnum
    /\ j.sector \in SectorEnum
    /\ Len(j.description) <= DescCap

\* C13 (SpecEmit): every posting an adapter returned, every row a transaction
\* has written and every stored row has a non-empty title, a type, a county
\* and a sector of their enumerations, and at most 2000 characters of
\* description.
C13_PostingInvariant ==
    /\ \A r \in Runs :
          /\ \A k \in 1..Len(runs[r].got) :
                \A m \in 1..Len(runs[r].got[k].jobs) : PostingOk(runs[r].got[k].jobs[m])
          /\ \A id \in DOMAIN runs[r].tx.ins : PostingOk(runs[r].tx.ins[id])
    /\ \A id \in DOMAIN scraped_jobs : PostingOk(scraped_jobs[id])

\* A committed run that stored a description cut at the cap and a feed
\* posting whose title was split.
C13_Witness ==
    /\ \E r \in Runs : Finished(r, "saved")
    /\ \E id \in DOMAIN scraped_jobs : Len(scraped_jobs[id].description) = DescCap
    /\ \E id \in DOMAIN scraped_jobs :
          /\ scraped_jobs[id].source = RSS_SOURCES[2]
          /\ scraped_jobs[id].title = "Field Officer"
          /\ scraped_jobs[id].company = "Oxfam | Kisumu"

\* The lowercased text, with None read as ''.
Lowered(x) == Lower(IF x = NoneVal THEN "" ELSE x)

\* The priority order of the employment types.
TypeOrder == <<"Internship", "Part-Time", "Government", "NGO", "Remote", "Contract">>

\* A keyword of the category occurs in the lowercased text.
KeywordOf(label, t) ==
    \E i \in 1..Len(TypeRules) : TypeRules[i].label = label /\ \E w \in TypeRules[i].words : Contains(t, w)

\* C14 (SpecClassify): detect_type(x) is the first category of the order
\* Internship, Part-Time, Government, NGO, Remote, Contract one of whose
\* keywords occurs in the lowercased text, and Full-Time when none does, for
\* None and '' too; a text with an Internship and a Government keyword is an
\* Internship.
C14_TypePriority ==
    dd.pc = "type" =>
        LET t    == Lowered(dd.x)
            hits == {i \in 1..Len(TypeOrder) : KeywordOf(TypeOrder[i], t)}
        IN  /\ hits = {} => dd.out = "Full-Time"
            /\ hits # {} => \E i \in hits : dd.out = TypeOrder[i] /\ \A k \in hits : i <= k
            /\ (KeywordOf("Internship", t) /\ KeywordOf("Government", t)) => dd.out = "Internship"

\* A text that names the Government keyword before the Internship keyword was
\* classified.
C14_Witness ==
    /\ dd.pc = "type"
    /\ dd.x = "MINISTRY Intern Consultant"
    /\ dd.out = "Internship"

\* C15 (SpecClassify): extract_county(x) is the region that comes first in
\* the list among those occurring in the text without regard to case,
\* wherever they stand in the text; with no region, Remote when 'remote' or
\* 'online' occurs, Nairobi otherwise.
C15_RegionListOrder ==
    dd.pc = "county" =>
        LET t    == Lowered(dd.x)
            hits == {i \in 1..Len(Counties) : Contains(t, Lower(Counties[i]))}
        IN  /\ hits # {} => \E i \in hits : dd.out = Counties[i] /\ \A k \in hits : i <= k
            /\ (hits = {} /\ (Contains(t, "remote") \/ Contains(t, "online"))) => dd.out = "Remote"
            /\ (hits = {} /\ ~Contains(t, "remote") /\ ~Contains(t, "online")) => dd.out = "Nairobi"

\* A text that names Mombasa before Nairobi was located in Nairobi.
C15_Witness ==
    /\ dd.pc = "county"
    /\ dd.x = "online Mombasa NAIROBI"
    /\ dd.out = "Nairobi"

\* The delimiters of a feed title in the order they are tested.
SepOrder == <<" at ", " - ", " | ">>

\* The delimiter stands in t after the first n characters.
SepAt(t, n, sep) == n + Len(sep) <= Len(t) /\ SubSeq(t, n + 1, n + Len(sep)) = sep

\* C16 (SpecFeed): for every feed entry the adapter keeps, the cleaned title
\* is tested for ' at ', ' - ', ' | ' in this order; the first delimiter that
\* is present splits it once, at its first occurrence, into title and
\* company; with no delimiter the title is unchanged and the company is the
\* display name of the feed; 'Accountant at Acme Ltd' gives ('Accountant',
\* 'Acme Ltd').
C16_TitleSplit ==
    (dd.pc = "parsed" /\ dd.out # <<>>) =>
        LET t    == clean(dd.x)
            job  == dd.out[1]
            hits == {i \in 1..Len(SepOrder) : Contains(t, SepOrder[i])}
        IN  /\ Len(dd.out) = 1
            /\ hits = {} => job.title = t /\ job.company = RSS_SOURCES[1]
            /\ hits # {} =>
                  \E i \in hits :
                     /\ \A k \in hits : i <= k
                     /\ \E n \in 0..Len(t) :
                           /\ SepAt(t, n, SepOrder[i])
                           /\ \A m \in 0..(n - 1) : ~SepAt(t, m, SepOrder[i])
                           /\ job.title = SubSeq(t, 1, n)
                           /\ job.company = SubSeq(t, n + Len(SepOrder[i]) + 1, Len(t))
            /\ t = "Accountant at Acme Ltd" => job.title = "Accountant" /\ job.company = "Acme Ltd"

\* The entry 'Accountant at Acme Ltd' was kept and split.
C16_Witness ==
    /\ dd.pc = "parsed"
    /\ dd.x = "Accountant at Acme Ltd"
    /\ Len(dd.out) = 1
    /\ dd.out[1].title = "Accountant"
    /\ dd.out[1].company = "Acme Ltd"

\* C17 (SpecEmit): after a run whose write committed, total_jobs of the
\* metadata is the number of rows of scraped_jobs, also when two postings of
\* the run have the same id.
C17_TotalIsRowCount ==
    \A r \in Runs :
        Finished(r, "saved") =>
            ParseInt(scraper_meta["total_jobs"]) = Cardinality(DOMAIN scraped_jobs)

\* C18 (SpecTwin): when the script and an HTTP run are given the same answers
\* of the upstreams and the same prior storage, and both commit, they leave
\* the same stored relation, every field of every row, and the same
\* total_jobs.
C18_EntryPointsAgree ==
    (dd.pc = "main" /\ Finished("b", "saved")) =>
        /\ scraped_jobs = dd.jobs
        /\ scraper_meta["total_jobs"] = dd.meta["total_jobs"]

====
